---- MODULE Spec2Model ----
(***************************************************************************)
(* Model of websockets/remote.go: the Remote session, its arbitration loop *)
(* (run), the read and write pumps, the per-command timeout watchers, the  *)
(* reconnect loop (reConnect) and Close().                                 *)
(*                                                                         *)
(* Every goroutine is a process with a program counter.  An unbuffered     *)
(* channel operation is one joint step of its sender and its receiver.     *)
(* Each invocation of run is a "generation" g with its own locals          *)
(* (outbound, inbound, pending, timeout, timeoutCancellers,                *)
(* writePumpStopped, response).  The websocket of a generation is closed   *)
(* by that generation's write pump; a read or write error can strike at    *)
(* any time, which covers every effect a pump of an older generation can   *)
(* have on the connection through the shared field r.ws.                   *)
(***************************************************************************)
EXTENDS Naturals, Sequences, FiniteSets

\* ---- bounds of the model ------------------------------------------------
NReq == 2          \* number of commands callers may submit (ids 1..NReq)
MaxGen == 2        \* number of connection generations (invocations of run)
MaxFrames == 2     \* number of frames the server may send in total
MaxPages == 3      \* accountTx: largest number of pages the server holds
MaxPageLen == 2    \* accountTx: largest number of transactions in one page

\* ---- program constants --------------------------------------------------
OutgoingCap == 10      \* make(chan Syncer, 10)
IncomingCap == 1000    \* make(chan interface{}, 1000)

Reqs == 1..NReq
Gens == 1..MaxGen
NoId == 0              \* zero value of Command.Id / "id" absent from a frame

\* Reasons passed to Fail, and the outcome recorded by Done.
ReasonDisconnect == "ws: server disconnected"
ReasonTimeout == "command timed out"
ReasonDecode == "error occured while unmarshalling"
OutcomeDone == "done"

\* Types with an entry in streamMessageFactory.
StreamTypes == {"ledgerClosed"}

\* Frames the server can put on the wire.  type "garbage" is a frame that is
\* not valid JSON; type "" is a JSON object without a "type" field; id NoId is
\* a JSON object without an "id" field; ok says whether the payload decodes
\* into the typed command / stream object.
FrameTypes == {"garbage", "", "response", "ledgerClosed"}
\* Value of run's local in while no frame is being decoded.
NoIn == [type |-> "garbage", id |-> NoId, ok |-> FALSE, n |-> NoId]
Frames ==
    {[type |-> "garbage", id |-> NoId, ok |-> FALSE]} \cup
    [type : FrameTypes \ {"garbage"}, id : {NoId} \cup Reqs, ok : BOOLEAN]

VARIABLES
    reConn,             \* r.reConn
    shutdown,           \* r.shutdown
    outgoing,           \* r.outgoing: buffered channel content (command ids)
    outgoingClosed,     \* r.outgoing has been closed
    Incoming,           \* r.Incoming: buffered channel content (frame numbers)
    incomingClosed,     \* r.Incoming has been closed
    incomingCloses,     \* number of close(r.Incoming) executed
    sentAfterClose,     \* a send on r.Incoming was executed after its close
    runPc,              \* position of run of generation g
    cause,              \* which return statement run of generation g took
    cur,                \* id local of run (command being handed off / cancelled)
    curOk,              \* whether the reply being processed decodes
    response,           \* var response Command of run
    pending,            \* pending map of run (its key set)
    timeoutCancellers,  \* timeoutCancellers map of run (its key set)
    outboundClosed,     \* outbound of generation g has been closed
    wpPc,               \* position of the write pump goroutine of generation g
    rpPc,               \* position of the read pump goroutine of generation g
    rpMsg,              \* number of the frame the read pump holds (NoId: none)
    wpMsg,              \* command the write pump received from outbound
    watcher,            \* position of commandTimeoutFunc of command id
    takenBy,            \* generation whose run took the command from outgoing
    rcPc,               \* position of reConnect started by generation g
    closePc,            \* position of Close()
    submitted,          \* commands a caller has sent on r.outgoing
    outcomes,           \* per command: sequence of Done/Fail invocations
    subOutage,          \* commands submitted while no run was alive
    nextFrame,          \* number of frames read from the websocket so far
    inFrame,            \* in local of run: the frame received from inbound
    delivered,          \* every frame number sent on r.Incoming, in send order
    txPages,            \* accountTx input: the server's pages (items per page)
    txFailAt,           \* accountTx input: page request that fails (0: none)
    txPc,               \* position of accountTx
    txMarker,           \* marker argument of the current command (NoMarker: nil)
    txResult,           \* cmd.Result and cmd.CommandError once cmd.Ready fired
    txI,                \* index of the range loop over cmd.Result.Transactions
    txSubmitted,        \* number of commands accountTx sent on r.outgoing
    txOut,              \* items received from accountTx's channel c
    txClosed            \* channel c has been closed

vars == <<reConn, shutdown, outgoing, outgoingClosed, Incoming, incomingClosed,
          incomingCloses, sentAfterClose, runPc, cause, cur, curOk, response,
          pending, timeoutCancellers, outboundClosed, wpPc, rpPc, rpMsg,
          wpMsg, watcher, takenBy, rcPc, closePc, submitted, outcomes,
          subOutage, nextFrame, inFrame, delivered, txPages, txFailAt,
          txPc, txMarker, txResult, txI, txSubmitted, txOut, txClosed>>

sessionVars == <<reConn, shutdown, outgoing, outgoingClosed, Incoming,
                 incomingClosed, incomingCloses, sentAfterClose>>
runVars == <<runPc, cause, cur, curOk, response, pending, timeoutCancellers,
             outboundClosed>>
pumpVars == <<wpPc, rpPc, rpMsg, wpMsg, nextFrame>>
callerVars == <<closePc, submitted, subOutage>>
txVars == <<txPages, txFailAt, txPc, txMarker, txResult, txI, txSubmitted,
            txOut, txClosed>>

\* ---- Request abstraction (Syncer) ----------------------------------------
\* Done() and Fail(reason) record one completion of the command.
Done(oc, id) == [oc EXCEPT ![id] = Append(@, OutcomeDone)]
Fail(oc, id, reason) == [oc EXCEPT ![id] = Append(@, reason)]

RunAlive(g) == runPc[g] \notin {"none", "exited"}
RunRunning(g) == runPc[g] \in {"select", "handoff", "decode", "cancel"}

\* Zero value of cmd.Result / cmd.CommandError before cmd.Ready has fired.
NoMarker == 0
NoResult == [Transactions |-> <<>>, Marker |-> NoMarker, CommandError |-> FALSE]

\* State after NewRemote has returned: one run has been started.
InitSession ==
    /\ reConn \in BOOLEAN
    /\ shutdown = FALSE
    /\ outgoing = <<>>
    /\ outgoingClosed = FALSE
    /\ Incoming = <<>>
    /\ incomingClosed = FALSE
    /\ incomingCloses = 0
    /\ sentAfterClose = FALSE
    /\ runPc = [g \in Gens |-> IF g = 1 THEN "start" ELSE "none"]
    /\ cause = [g \in Gens |-> "none"]
    /\ cur = [g \in Gens |-> NoId]
    /\ curOk = [g \in Gens |-> FALSE]
    /\ response = [g \in Gens |-> [Type |-> "", Id |-> NoId]]
    /\ pending = [g \in Gens |-> {}]
    /\ timeoutCancellers = [g \in Gens |-> {}]
    /\ outboundClosed = [g \in Gens |-> FALSE]
    /\ wpPc = [g \in Gens |-> "none"]
    /\ rpPc = [g \in Gens |-> "none"]
    /\ rpMsg = [g \in Gens |-> NoId]
    /\ wpMsg = [g \in Gens |-> NoId]
    /\ watcher = [id \in Reqs |-> "none"]
    /\ takenBy = [id \in Reqs |-> 0]
    /\ rcPc = [g \in Gens |-> "none"]
    /\ closePc = "idle"
    /\ submitted = {}
    /\ outcomes = [id \in Reqs |-> <<>>]
    /\ subOutage = {}
    /\ nextFrame = 0
    /\ inFrame = [g \in Gens |-> NoIn]
    /\ delivered = <<>>

\* No accountTx call is in progress.
Init ==
    /\ InitSession
    /\ txPages = <<>>
    /\ txFailAt = 0
    /\ txPc = "off"
    /\ txMarker = NoMarker
    /\ txResult = NoResult
    /\ txI = 0
    /\ txSubmitted = 0
    /\ txOut = <<>>
    /\ txClosed = FALSE

\* ---- run: the arbitration loop -------------------------------------------

\* run's prologue: make the channels and maps, spawn the two pumps.
RunStart(g) ==
    /\ runPc[g] = "start"
    /\ runPc' = [runPc EXCEPT ![g] = "select"]
    /\ wpPc' = [wpPc EXCEPT ![g] = "select"]
    /\ rpPc' = [rpPc EXCEPT ![g] = "read"]
    /\ UNCHANGED <<sessionVars, cause, cur, curOk, response, pending,
                   timeoutCancellers, outboundClosed, rpMsg, wpMsg, nextFrame, watcher, takenBy, rcPc, callerVars,
                   outcomes>>
    /\ UNCHANGED <<inFrame, delivered, txVars>>

\* case command, ok := <-r.outgoing with ok: register the command in pending
\* and timeoutCancellers, then enter the inner select.
RunTakeCommand(g) ==
    /\ runPc[g] = "select"
    /\ outgoing # <<>>
    /\ LET id == Head(outgoing) IN
        /\ outgoing' = Tail(outgoing)
        /\ pending' = [pending EXCEPT ![g] = @ \cup {id}]
        /\ timeoutCancellers' = [timeoutCancellers EXCEPT ![g] = @ \cup {id}]
        /\ cur' = [cur EXCEPT ![g] = id]
        /\ takenBy' = [takenBy EXCEPT ![id] = g]
    /\ runPc' = [runPc EXCEPT ![g] = "handoff"]
    /\ UNCHANGED <<reConn, shutdown, outgoingClosed, Incoming, incomingClosed,
                   incomingCloses, sentAfterClose, cause, curOk, response,
                   outboundClosed, pumpVars, watcher, rcPc, callerVars,
                   outcomes>>
    /\ UNCHANGED <<inFrame, delivered, txVars>>

\* case command, ok := <-r.outgoing with !ok: return.
RunOutgoingClosed(g) ==
    /\ runPc[g] = "select"
    /\ outgoing = <<>>
    /\ outgoingClosed
    /\ runPc' = [runPc EXCEPT ![g] = "tdClose"]
    /\ cause' = [cause EXCEPT ![g] = "outgoingClosed"]
    /\ UNCHANGED <<sessionVars, cur, curOk, response, pending,
                   timeoutCancellers, outboundClosed, pumpVars, watcher,
                   takenBy, rcPc, callerVars, outcomes>>
    /\ UNCHANGED <<inFrame, delivered, txVars>>

\* inner select, case outbound <- command: the write pump receives the
\* command and the timeout watcher is started.
RunHandoff(g) ==
    /\ runPc[g] = "handoff"
    /\ wpPc[g] = "select"
    /\ wpPc' = [wpPc EXCEPT ![g] = "write"]
    /\ wpMsg' = [wpMsg EXCEPT ![g] = cur[g]]
    /\ watcher' = [watcher EXCEPT ![cur[g]] = "waiting"]
    /\ cur' = [cur EXCEPT ![g] = NoId]
    /\ runPc' = [runPc EXCEPT ![g] = "select"]
    /\ UNCHANGED <<sessionVars, cause, curOk, response, pending,
                   timeoutCancellers, outboundClosed, rpPc, rpMsg, nextFrame, takenBy, rcPc, callerVars,
                   outcomes>>
    /\ UNCHANGED <<inFrame, delivered, txVars>>

\* writePumpStopped is closed once the write pump's first deferred call ran.
WritePumpStopped(g) == wpPc[g] \in {"stopped", "exited"}

\* Mutant of RunWritePumpStopped: the canceller of the command is left in
\* timeoutCancellers.
RunWritePumpStoppedKeepsCanceller(g) ==
    /\ runPc[g] = "handoff"
    /\ WritePumpStopped(g)
    /\ runPc' = [runPc EXCEPT ![g] = "tdClose"]
    /\ cause' = [cause EXCEPT ![g] = "writePumpStopped"]
    /\ UNCHANGED <<sessionVars, cur, curOk, response, pending,
                   timeoutCancellers, outboundClosed, pumpVars, watcher,
                   takenBy, rcPc, callerVars, outcomes>>
    /\ UNCHANGED <<inFrame, delivered, txVars>>

\* inner select, case <-writePumpStopped: drop the canceller and return.
RunWritePumpStopped(g) ==
    /\ runPc[g] = "handoff"
    /\ WritePumpStopped(g)
    /\ timeoutCancellers' = [timeoutCancellers EXCEPT ![g] = @ \ {cur[g]}]
    /\ runPc' = [runPc EXCEPT ![g] = "tdClose"]
    /\ cause' = [cause EXCEPT ![g] = "writePumpStopped"]
    /\ UNCHANGED <<sessionVars, cur, curOk, response, pending, outboundClosed,
                   pumpVars, watcher, takenBy, rcPc, callerVars, outcomes>>
    /\ UNCHANGED <<inFrame, delivered, txVars>>

\* case in, ok := <-inbound with !ok: return.
RunInboundClosed(g) ==
    /\ runPc[g] = "select"
    /\ rpPc[g] = "exited"
    /\ runPc' = [runPc EXCEPT ![g] = "tdClose"]
    /\ cause' = [cause EXCEPT ![g] = "inboundClosed"]
    /\ UNCHANGED <<sessionVars, cur, curOk, response, pending,
                   timeoutCancellers, outboundClosed, pumpVars, watcher,
                   takenBy, rcPc, callerVars, outcomes>>
    /\ UNCHANGED <<inFrame, delivered, txVars>>

\* json.Unmarshal(in, &response): response is declared outside the loop, so
\* a field absent from the frame keeps the value of the previous frame.
Unmarshal(resp, f) ==
    [Type |-> IF f.type = "" THEN resp.Type ELSE f.type,
     Id   |-> IF f.id = NoId THEN resp.Id ELSE f.id]

\* Mutant of PendingAfterReply: the reply path forgets the delete.
PendingAfterReplyKept(p, id) == p

\* delete(pending, response.Id)
PendingAfterReply(p, id) == p \ {id}

\* Mutant of SendIncoming: the message is put in front of the waiting ones.
SendIncomingInFront(q, n) == <<n>> \o q

\* r.Incoming <- cmd
SendIncoming(q, n) == Append(q, n)

\* Mutant of IsStream: a frame that names a command id is taken for a reply.
IsStreamWithoutId(resp) == resp.Type \in StreamTypes /\ resp.Id = NoId

\* factory, ok := streamMessageFactory[response.Type]
IsStream(resp) == resp.Type \in StreamTypes

\* case in, ok := <-inbound with ok: run receives the frame the read pump
\* holds; its bytes are one of the frames the server can send.
RunReceive(g) ==
    /\ runPc[g] = "select"
    /\ rpPc[g] = "send"
    /\ rpPc' = [rpPc EXCEPT ![g] = "read"]
    /\ rpMsg' = [rpMsg EXCEPT ![g] = NoId]
    /\ runPc' = [runPc EXCEPT ![g] = "decode"]
    /\ \E f \in Frames :
        inFrame' = [inFrame EXCEPT ![g] =
                      [type |-> f.type, id |-> f.id, ok |-> f.ok,
                       n |-> rpMsg[g]]]
    /\ UNCHANGED <<sessionVars, cause, cur, curOk, response, pending,
                   timeoutCancellers, outboundClosed, wpPc, wpMsg, nextFrame,
                   watcher, takenBy, rcPc, callerVars, outcomes, delivered,
                   txVars>>

\* The body of the inbound case: decode the envelope of the received frame
\* and dispatch it.
RunInbound(g) ==
    /\ runPc[g] = "decode"
    /\ inFrame' = [inFrame EXCEPT ![g] = NoIn]
    /\ LET f == inFrame[g]
           resp == Unmarshal(response[g], f)
       IN
        IF f.type = "garbage"
        THEN \* the envelope does not parse: log and continue
             /\ runPc' = [runPc EXCEPT ![g] = "select"]
             /\ UNCHANGED <<cause, cur, curOk, response, pending,
                            timeoutCancellers, outboundClosed, sessionVars,
                            watcher, outcomes, delivered>>
        ELSE
        /\ response' = [response EXCEPT ![g] = resp]
        /\ IF IsStream(resp)
           THEN \* stream message
             /\ IF f.ok
                THEN /\ Len(Incoming) < IncomingCap
                     /\ Incoming' = SendIncoming(Incoming, f.n)
                     /\ delivered' = Append(delivered, f.n)
                     /\ sentAfterClose' = (sentAfterClose \/ incomingClosed)
                ELSE UNCHANGED <<Incoming, delivered, sentAfterClose>>
             /\ runPc' = [runPc EXCEPT ![g] = "select"]
             /\ UNCHANGED <<cause, cur, curOk, pending,
                            timeoutCancellers, outboundClosed, watcher,
                            outcomes>>
           ELSE IF resp.Id \notin pending[g]
           THEN \* unexpected message
                /\ runPc' = [runPc EXCEPT ![g] = "select"]
                /\ UNCHANGED <<cause, cur, curOk, pending,
                               timeoutCancellers, outboundClosed, watcher,
                               outcomes, Incoming, delivered, sentAfterClose>>
           ELSE \* command response message
             /\ pending' = [pending EXCEPT ![g] = PendingAfterReply(@, resp.Id)]
             /\ IF resp.Id \in timeoutCancellers[g]
                THEN \* about to send on the canceller
                     /\ runPc' = [runPc EXCEPT ![g] = "cancel"]
                     /\ cur' = [cur EXCEPT ![g] = resp.Id]
                     /\ curOk' = [curOk EXCEPT ![g] = f.ok]
                     /\ UNCHANGED outcomes
                ELSE /\ outcomes' = IF f.ok THEN Done(outcomes, resp.Id)
                                    ELSE Fail(outcomes, resp.Id, ReasonDecode)
                     /\ runPc' = [runPc EXCEPT ![g] = "select"]
                     /\ UNCHANGED <<cur, curOk>>
             /\ UNCHANGED <<cause, timeoutCancellers, outboundClosed, watcher,
                            Incoming, delivered, sentAfterClose>>
    /\ UNCHANGED <<reConn, shutdown, outgoing, outgoingClosed, incomingClosed,
                   incomingCloses, pumpVars, takenBy, rcPc, callerVars,
                   txVars>>

\* Mutant of RunCancel: the cancellation is dropped when the watcher is not
\* ready to take it, so a watcher that has fired stays blocked on timeout.
RunCancelNoWait(g) ==
    /\ runPc[g] = "cancel"
    /\ watcher' = [watcher EXCEPT ![cur[g]] =
                       IF @ = "waiting" THEN "exited" ELSE @]
    /\ timeoutCancellers' = [timeoutCancellers EXCEPT ![g] = @ \ {cur[g]}]
    /\ outcomes' = IF curOk[g] THEN Done(outcomes, cur[g])
                   ELSE Fail(outcomes, cur[g], ReasonDecode)
    /\ runPc' = [runPc EXCEPT ![g] = "select"]
    /\ cur' = [cur EXCEPT ![g] = NoId]
    /\ curOk' = [curOk EXCEPT ![g] = FALSE]
    /\ UNCHANGED <<sessionVars, cause, response, pending, outboundClosed,
                   pumpVars, takenBy, rcPc, callerVars>>
    /\ UNCHANGED <<inFrame, delivered, txVars>>

\* canceller <- struct{}{} on the unbuffered canceller: completes only with
\* a watcher that is in its select; then delete the canceller, decode the
\* result onto the command and complete it.
RunCancel(g) ==
    /\ runPc[g] = "cancel"
    /\ watcher[cur[g]] = "waiting"
    /\ watcher' = [watcher EXCEPT ![cur[g]] = "exited"]
    /\ timeoutCancellers' = [timeoutCancellers EXCEPT ![g] = @ \ {cur[g]}]
    /\ outcomes' = IF curOk[g] THEN Done(outcomes, cur[g])
                   ELSE Fail(outcomes, cur[g], ReasonDecode)
    /\ runPc' = [runPc EXCEPT ![g] = "select"]
    /\ cur' = [cur EXCEPT ![g] = NoId]
    /\ curOk' = [curOk EXCEPT ![g] = FALSE]
    /\ UNCHANGED <<sessionVars, cause, response, pending, outboundClosed,
                   pumpVars, takenBy, rcPc, callerVars>>
    /\ UNCHANGED <<inFrame, delivered, txVars>>

\* Mutant of RunTimeout: the timed-out command is left to the teardown, which
\* fails it like every other pending command.
RunTimeoutLeftPending(g) ==
    /\ runPc[g] = "select"
    /\ \E id \in Reqs :
        /\ watcher[id] = "sending"
        /\ takenBy[id] = g
        /\ watcher' = [watcher EXCEPT ![id] = "exited"]
        /\ IF id \in pending[g]
           THEN /\ runPc' = [runPc EXCEPT ![g] = "tdClose"]
                /\ cause' = [cause EXCEPT ![g] = "timeout"]
                /\ UNCHANGED <<pending, outcomes, timeoutCancellers>>
           ELSE /\ timeoutCancellers' = [timeoutCancellers EXCEPT ![g] = @ \ {id}]
                /\ UNCHANGED <<pending, outcomes, runPc, cause>>
    /\ UNCHANGED <<sessionVars, cur, curOk, response, outboundClosed, pumpVars,
                   takenBy, rcPc, callerVars>>
    /\ UNCHANGED <<inFrame, delivered, txVars>>

\* case id := <-timeout: a watcher of this generation reports its timeout.
RunTimeout(g) ==
    /\ runPc[g] = "select"
    /\ \E id \in Reqs :
        /\ watcher[id] = "sending"
        /\ takenBy[id] = g
        /\ watcher' = [watcher EXCEPT ![id] = "exited"]
        /\ IF id \in pending[g]
           THEN /\ pending' = [pending EXCEPT ![g] = @ \ {id}]
                /\ outcomes' = Fail(outcomes, id, ReasonTimeout)
                /\ runPc' = [runPc EXCEPT ![g] = "tdClose"]
                /\ cause' = [cause EXCEPT ![g] = "timeout"]
                /\ UNCHANGED timeoutCancellers
           ELSE /\ timeoutCancellers' = [timeoutCancellers EXCEPT ![g] = @ \ {id}]
                /\ UNCHANGED <<pending, outcomes, runPc, cause>>
    /\ UNCHANGED <<sessionVars, cur, curOk, response, outboundClosed, pumpVars,
                   takenBy, rcPc, callerVars>>
    /\ UNCHANGED <<inFrame, delivered, txVars>>

\* ---- run: the deferred teardown ------------------------------------------

\* close(outbound)
TdCloseOutbound(g) ==
    /\ runPc[g] = "tdClose"
    /\ outboundClosed' = [outboundClosed EXCEPT ![g] = TRUE]
    /\ runPc' = [runPc EXCEPT ![g] = "tdFail"]
    /\ UNCHANGED <<sessionVars, cause, cur, curOk, response, pending,
                   timeoutCancellers, pumpVars, watcher, takenBy, rcPc,
                   callerVars, outcomes>>
    /\ UNCHANGED <<inFrame, delivered, txVars>>

\* Mutant of FailPending: the range loop stops after the first command.
FailPendingFirstOnly(oc, p) ==
    [id \in Reqs |-> IF id \in p /\ \A j \in p : id <= j
                     THEN Append(oc[id], ReasonDisconnect)
                     ELSE oc[id]]

\* for _, c := range pending { c.Fail("ws: server disconnected") }
FailPending(oc, p) ==
    [id \in Reqs |-> IF id \in p THEN Append(oc[id], ReasonDisconnect)
                     ELSE oc[id]]

TdFailPending(g) ==
    /\ runPc[g] = "tdFail"
    /\ outcomes' = FailPending(outcomes, pending[g])
    /\ runPc' = [runPc EXCEPT ![g] = "tdDrain"]
    /\ UNCHANGED <<sessionVars, cause, cur, curOk, response, pending,
                   timeoutCancellers, outboundClosed, pumpVars, watcher,
                   takenBy, rcPc, callerVars>>
    /\ UNCHANGED <<inFrame, delivered, txVars>>

\* for range inbound {}: one frame received and dropped.
TdDrain(g) ==
    /\ runPc[g] = "tdDrain"
    /\ rpPc[g] = "send"
    /\ rpPc' = [rpPc EXCEPT ![g] = "read"]
    /\ rpMsg' = [rpMsg EXCEPT ![g] = NoId]
    /\ UNCHANGED <<sessionVars, runVars, wpPc, wpMsg, nextFrame,
                   watcher, takenBy, rcPc, callerVars, outcomes>>
    /\ UNCHANGED <<inFrame, delivered, txVars>>

\* Mutant of TdDrained: the drain loop ends without waiting for the read pump
\* to close inbound.
TdDrainedEarly(g) ==
    /\ runPc[g] = "tdDrain"
    /\ runPc' = [runPc EXCEPT ![g] = "tdDecide"]
    /\ UNCHANGED <<sessionVars, cause, cur, curOk, response, pending,
                   timeoutCancellers, outboundClosed, pumpVars, watcher,
                   takenBy, rcPc, callerVars, outcomes>>
    /\ UNCHANGED <<inFrame, delivered, txVars>>

\* for range inbound {}: inbound is closed, the loop ends.
TdDrained(g) ==
    /\ runPc[g] = "tdDrain"
    /\ rpPc[g] = "exited"
    /\ runPc' = [runPc EXCEPT ![g] = "tdDecide"]
    /\ UNCHANGED <<sessionVars, cause, cur, curOk, response, pending,
                   timeoutCancellers, outboundClosed, pumpVars, watcher,
                   takenBy, rcPc, callerVars, outcomes>>
    /\ UNCHANGED <<inFrame, delivered, txVars>>

\* Values the unsynchronised read of r.shutdown can return.  Close() writes
\* the flag without synchronisation; the write is ordered before this read
\* only when this run returned because it saw r.outgoing closed.
ShutdownRead(g) ==
    IF shutdown /\ cause[g] # "outgoingClosed" THEN BOOLEAN ELSE {shutdown}

\* r.reConn && !r.shutdown
ShouldReconnect(rc, sd) == rc /\ ~sd

\* Mutant of TdDecide: close(r.Incoming) runs whether or not the reconnect
\* loop is started.
TdDecideAlwaysCloses(g) ==
    /\ runPc[g] = "tdDecide"
    /\ runPc' = [runPc EXCEPT ![g] = "exited"]
    /\ \E sd \in ShutdownRead(g) :
        rcPc' = IF ShouldReconnect(reConn, sd)
                THEN [rcPc EXCEPT ![g] = "loop"] ELSE rcPc
    /\ incomingClosed' = TRUE
    /\ incomingCloses' = incomingCloses + 1
    /\ pending' = [pending EXCEPT ![g] = {}]
    /\ timeoutCancellers' = [timeoutCancellers EXCEPT ![g] = {}]
    /\ response' = [response EXCEPT ![g] = [Type |-> "", Id |-> NoId]]
    /\ cur' = [cur EXCEPT ![g] = NoId]
    /\ cause' = [cause EXCEPT ![g] = "none"]
    /\ UNCHANGED <<reConn, shutdown, outgoing, outgoingClosed, Incoming,
                   sentAfterClose, curOk, outboundClosed, pumpVars,
                   watcher, takenBy, callerVars, outcomes>>
    /\ UNCHANGED <<inFrame, delivered, txVars>>

\* if r.reConn && !r.shutdown { go r.reConnect() } else { close(r.Incoming) }
\* and run returns: its locals are gone.
TdDecide(g) ==
    /\ runPc[g] = "tdDecide"
    /\ runPc' = [runPc EXCEPT ![g] = "exited"]
    /\ \E sd \in ShutdownRead(g) :
        IF ShouldReconnect(reConn, sd)
        THEN /\ rcPc' = [rcPc EXCEPT ![g] = "loop"]
             /\ UNCHANGED <<incomingClosed, incomingCloses>>
        ELSE /\ incomingClosed' = TRUE
             /\ incomingCloses' = incomingCloses + 1
             /\ UNCHANGED rcPc
    /\ pending' = [pending EXCEPT ![g] = {}]
    /\ timeoutCancellers' = [timeoutCancellers EXCEPT ![g] = {}]
    /\ response' = [response EXCEPT ![g] = [Type |-> "", Id |-> NoId]]
    /\ cur' = [cur EXCEPT ![g] = NoId]
    /\ cause' = [cause EXCEPT ![g] = "none"]
    /\ UNCHANGED <<reConn, shutdown, outgoing, outgoingClosed, Incoming,
                   sentAfterClose, curOk, outboundClosed, pumpVars,
                   watcher, takenBy, callerVars, outcomes>>
    /\ UNCHANGED <<inFrame, delivered, txVars>>

\* ---- commandTimeoutFunc ---------------------------------------------------

\* case <-timer.C: the watcher leaves its select and blocks on timeout <- id.
WatcherFire(id) ==
    /\ watcher[id] = "waiting"
    /\ watcher' = [watcher EXCEPT ![id] = "sending"]
    /\ UNCHANGED <<sessionVars, runVars, pumpVars, takenBy, rcPc, callerVars,
                   outcomes>>
    /\ UNCHANGED <<inFrame, delivered, txVars>>

\* ---- writePump ------------------------------------------------------------

\* json.Marshal and r.ws.WriteMessage of the received command: written (or
\* skipped because it does not serialise) and the pump loops, or a write
\* error makes the pump return and its deferred close(writePumpStopped) run.
WpWrite(g) ==
    /\ wpPc[g] = "write"
    /\ \E res \in {"continue", "writeError"} :
        wpPc' = [wpPc EXCEPT ![g] = IF res = "writeError" THEN "stopped"
                                    ELSE "select"]
    /\ wpMsg' = [wpMsg EXCEPT ![g] = NoId]
    /\ UNCHANGED <<sessionVars, runVars, rpPc, rpMsg, nextFrame, watcher,
                   takenBy, rcPc, callerVars, outcomes>>
    /\ UNCHANGED <<inFrame, delivered, txVars>>

\* case <-ticker.C: the ping fails, the pump returns and its deferred
\* close(writePumpStopped) runs.
WpPingError(g) ==
    /\ wpPc[g] = "select"
    /\ wpPc' = [wpPc EXCEPT ![g] = "stopped"]
    /\ UNCHANGED <<sessionVars, runVars, rpPc, rpMsg, wpMsg, nextFrame, watcher, takenBy, rcPc, callerVars,
                   outcomes>>
    /\ UNCHANGED <<inFrame, delivered, txVars>>

\* case message, ok := <-outbound with !ok: send the close frame, return,
\* and the deferred close(writePumpStopped) runs.
WpOutboundClosed(g) ==
    /\ wpPc[g] = "select"
    /\ outboundClosed[g]
    /\ wpPc' = [wpPc EXCEPT ![g] = "stopped"]
    /\ UNCHANGED <<sessionVars, runVars, rpPc, rpMsg, wpMsg, nextFrame, watcher, takenBy, rcPc, callerVars,
                   outcomes>>
    /\ UNCHANGED <<inFrame, delivered, txVars>>

\* defer r.ws.Close()
WpDeferWsClose(g) ==
    /\ wpPc[g] = "stopped"
    /\ wpPc' = [wpPc EXCEPT ![g] = "exited"]
    /\ UNCHANGED <<sessionVars, runVars, rpPc, rpMsg, wpMsg, nextFrame, watcher, takenBy, rcPc, callerVars,
                   outcomes>>
    /\ UNCHANGED <<inFrame, delivered, txVars>>

\* ---- readPump -------------------------------------------------------------

\* r.ws.ReadMessage() returns a frame.  The pump treats it as opaque bytes:
\* it holds the frame's position n in the order read from the websocket, and
\* the bytes are looked at when run decodes them.
RpRead(g) ==
    /\ rpPc[g] = "read"
    /\ wpPc[g] # "exited"
    /\ nextFrame < MaxFrames
    /\ nextFrame' = nextFrame + 1
    /\ rpMsg' = [rpMsg EXCEPT ![g] = nextFrame + 1]
    /\ rpPc' = [rpPc EXCEPT ![g] = "send"]
    /\ UNCHANGED <<sessionVars, runVars, wpPc, wpMsg, watcher, takenBy,
                   rcPc, callerVars, outcomes>>
    /\ UNCHANGED <<inFrame, delivered, txVars>>

\* r.ws.ReadMessage() returns an error (the peer went away, the read deadline
\* passed, or the write pump closed the websocket): the pump returns and its
\* deferred close(inbound) runs.
RpReadError(g) ==
    /\ rpPc[g] = "read"
    /\ rpPc' = [rpPc EXCEPT ![g] = "exited"]
    /\ rpMsg' = [rpMsg EXCEPT ![g] = NoId]
    /\ UNCHANGED <<sessionVars, runVars, wpPc, wpMsg, nextFrame, watcher, takenBy, rcPc, callerVars, outcomes>>
    /\ UNCHANGED <<inFrame, delivered, txVars>>

\* ---- reConnect ------------------------------------------------------------

\* case command, ok := <-r.outgoing with ok: command.Fail(...)
RcFailCommand(g) ==
    /\ rcPc[g] = "loop"
    /\ outgoing # <<>>
    /\ outgoing' = Tail(outgoing)
    /\ outcomes' = Fail(outcomes, Head(outgoing), ReasonDisconnect)
    /\ UNCHANGED <<reConn, shutdown, outgoingClosed, Incoming, incomingClosed,
                   incomingCloses, sentAfterClose, runVars, pumpVars, watcher,
                   takenBy, rcPc, callerVars>>
    /\ UNCHANGED <<inFrame, delivered, txVars>>

\* case command, ok := <-r.outgoing with !ok: return.
RcOutgoingClosed(g) ==
    /\ rcPc[g] = "loop"
    /\ outgoing = <<>>
    /\ outgoingClosed
    /\ rcPc' = [rcPc EXCEPT ![g] = "exited"]
    /\ UNCHANGED <<sessionVars, runVars, pumpVars, watcher, takenBy,
                   callerVars, outcomes>>
    /\ UNCHANGED <<inFrame, delivered, txVars>>

\* Mutant of RcReconnected: the loop is not left after go r.run().
RcReconnectedNoBreak(g) ==
    /\ rcPc[g] = "loop"
    /\ g < MaxGen
    /\ runPc[g + 1] = "none"
    /\ runPc' = [runPc EXCEPT ![g + 1] = "start"]
    /\ UNCHANGED <<sessionVars, cause, cur, curOk, response, pending,
                   timeoutCancellers, outboundClosed, pumpVars, watcher,
                   takenBy, rcPc, callerVars, outcomes, inFrame, delivered,
                   txVars>>

\* case <-ticker.C with both dials succeeding: r.ws = ws; go r.run(); break.
\* (A failed dial continues the loop and changes nothing.)
RcReconnected(g) ==
    /\ rcPc[g] = "loop"
    /\ g < MaxGen
    /\ rcPc' = [rcPc EXCEPT ![g] = "exited"]
    /\ runPc' = [runPc EXCEPT ![g + 1] = "start"]
    /\ UNCHANGED <<sessionVars, cause, cur, curOk, response, pending,
                   timeoutCancellers, outboundClosed, pumpVars, watcher,
                   takenBy, callerVars, outcomes>>
    /\ UNCHANGED <<inFrame, delivered, txVars>>

\* ---- Close ----------------------------------------------------------------

\* r.shutdown = true
CloseSetShutdown ==
    /\ closePc = "idle"
    /\ shutdown' = TRUE
    /\ closePc' = "closeOutgoing"
    /\ UNCHANGED <<reConn, outgoing, outgoingClosed, Incoming, incomingClosed,
                   incomingCloses, sentAfterClose, runVars, pumpVars, watcher,
                   takenBy, rcPc, submitted, subOutage, outcomes>>
    /\ UNCHANGED <<inFrame, delivered, txVars>>

\* close(r.outgoing)
CloseOutgoing ==
    /\ closePc = "closeOutgoing"
    /\ outgoingClosed' = TRUE
    /\ closePc' = "drain"
    /\ UNCHANGED <<reConn, shutdown, outgoing, Incoming, incomingClosed,
                   incomingCloses, sentAfterClose, runVars, pumpVars, watcher,
                   takenBy, rcPc, submitted, subOutage, outcomes>>
    /\ UNCHANGED <<inFrame, delivered, txVars>>

\* for _ = range r.Incoming {}: one message received and dropped.
CloseDrain ==
    /\ closePc = "drain"
    /\ Incoming # <<>>
    /\ Incoming' = Tail(Incoming)
    /\ UNCHANGED <<reConn, shutdown, outgoing, outgoingClosed, incomingClosed,
                   incomingCloses, sentAfterClose, runVars, pumpVars, watcher,
                   takenBy, rcPc, callerVars, outcomes>>
    /\ UNCHANGED <<inFrame, delivered, txVars>>

\* for _ = range r.Incoming {}: the channel is closed and empty, Close returns.
CloseReturn ==
    /\ closePc = "drain"
    /\ Incoming = <<>>
    /\ incomingClosed
    /\ closePc' = "returned"
    /\ UNCHANGED <<sessionVars, runVars, pumpVars, watcher, takenBy, rcPc,
                   submitted, subOutage, outcomes>>
    /\ UNCHANGED <<inFrame, delivered, txVars>>

\* ---- callers --------------------------------------------------------------

NoLiveRun == \A g \in Gens : ~RunAlive(g)

\* r.outgoing <- cmd of Tx, Submit, Ledger, ...; ids are handed out in
\* increasing order by newCommand.  Callers issue no command once Close()
\* has been called (a send on the closed r.outgoing panics).
Submit(id) ==
    /\ closePc = "idle"
    /\ id \notin submitted
    /\ \A j \in Reqs : j < id => j \in submitted
    /\ ~outgoingClosed
    /\ Len(outgoing) < OutgoingCap
    /\ outgoing' = Append(outgoing, id)
    /\ submitted' = submitted \cup {id}
    /\ subOutage' = IF NoLiveRun THEN subOutage \cup {id} ELSE subOutage
    /\ UNCHANGED <<reConn, shutdown, outgoingClosed, Incoming, incomingClosed,
                   incomingCloses, sentAfterClose, runVars, pumpVars, watcher,
                   takenBy, rcPc, closePc, outcomes>>
    /\ UNCHANGED <<inFrame, delivered, txVars>>

Next ==
    \/ \E g \in Gens : RunStart(g)
    \/ \E g \in Gens : RunTakeCommand(g)
    \/ \E g \in Gens : RunOutgoingClosed(g)
    \/ \E g \in Gens : RunHandoff(g)
    \/ \E g \in Gens : RunWritePumpStopped(g)
    \/ \E g \in Gens : RunInboundClosed(g)
    \/ \E g \in Gens : RunReceive(g)
    \/ \E g \in Gens : RunInbound(g)
    \/ \E g \in Gens : RunCancel(g)
    \/ \E g \in Gens : RunTimeout(g)
    \/ \E g \in Gens : TdCloseOutbound(g)
    \/ \E g \in Gens : TdFailPending(g)
    \/ \E g \in Gens : TdDrain(g)
    \/ \E g \in Gens : TdDrained(g)
    \/ \E g \in Gens : TdDecide(g)
    \/ \E id \in Reqs : WatcherFire(id)
    \/ \E g \in Gens : WpWrite(g)
    \/ \E g \in Gens : WpPingError(g)
    \/ \E g \in Gens : WpOutboundClosed(g)
    \/ \E g \in Gens : WpDeferWsClose(g)
    \/ \E g \in Gens : RpRead(g)
    \/ \E g \in Gens : RpReadError(g)
    \/ \E g \in Gens : RcFailCommand(g)
    \/ \E g \in Gens : RcOutgoingClosed(g)
    \/ \E g \in Gens : RcReconnected(g)
    \/ CloseSetShutdown
    \/ CloseOutgoing
    \/ CloseDrain
    \/ CloseReturn
    \/ \E id \in Reqs : Submit(id)

Spec == Init /\ [][Next]_vars

\* ---- accountTx: the pagination driver ------------------------------------
\* The server holds Len(txPages) pages; txPages[p] is the number of
\* transactions of page p and transaction i of page p is <<p, i>>.  The reply
\* to a request with marker m is the page after m, with marker p on every
\* page p but the last.  The session completes the request number txFailAt
\* with Fail (cmd.CommandError set) and every other request with Done.

Page(p) == [i \in 1..txPages[p] |-> <<p, i>>]

\* The outcome of <-cmd.Ready for the n-th request, sent with marker m.
TxReply(n, m) ==
    IF n = txFailAt
    THEN [Transactions |-> <<>>, Marker |-> NoMarker, CommandError |-> TRUE]
    ELSE [Transactions |-> Page(m + 1),
          Marker |-> IF m + 1 < Len(txPages) THEN m + 1 ELSE NoMarker,
          CommandError |-> FALSE]

\* Marker argument of the command built by the loop's post statement, which
\* the mutant replaces by nil.
TxNextMarkerNil(res) == NoMarker

\* Marker argument of the command built by the loop's post statement.
TxNextMarker(res) == res.Marker

\* Everything but the locals of accountTx.
sessionState == <<sessionVars, runVars, pumpVars, callerVars, watcher, takenBy,
                  rcPc, outcomes, inFrame, delivered>>

\* The caller starts accountTx: an account with 1..MaxPages pages.
InitTx ==
    /\ InitSession
    /\ txPages \in UNION {[1..k -> 0..MaxPageLen] : k \in 1..MaxPages}
    /\ txFailAt \in 0..MaxPages
    /\ txPc = "submit"
    /\ txMarker = NoMarker
    /\ txResult = NoResult
    /\ txI = 0
    /\ txSubmitted = 0
    /\ txOut = <<>>
    /\ txClosed = FALSE

\* r.outgoing <- cmd (the number of loop passes is capped at MaxPages + 1).
TxSubmit ==
    /\ txPc = "submit"
    /\ txSubmitted <= MaxPages
    /\ txSubmitted' = txSubmitted + 1
    /\ txPc' = "wait"
    /\ UNCHANGED <<txPages, txFailAt, txMarker, txResult, txI, txOut, txClosed>>
    /\ UNCHANGED sessionState

\* <-cmd.Ready, then the CommandError test.
TxReady ==
    /\ txPc = "wait"
    /\ txResult' = TxReply(txSubmitted, txMarker)
    /\ txI' = 1
    /\ txPc' = IF txResult'.CommandError THEN "close" ELSE "emit"
    /\ UNCHANGED <<txPages, txFailAt, txMarker, txSubmitted, txOut, txClosed>>
    /\ UNCHANGED sessionState

\* c <- tx for the next transaction of the page.
TxEmit ==
    /\ txPc = "emit"
    /\ txI <= Len(txResult.Transactions)
    /\ txOut' = Append(txOut, txResult.Transactions[txI])
    /\ txI' = txI + 1
    /\ UNCHANGED <<txPages, txFailAt, txPc, txMarker, txResult, txSubmitted,
                   txClosed>>
    /\ UNCHANGED sessionState

\* End of the range loop: return when the page has no marker, else build the
\* next command from cmd.Result.Marker.
TxPageEnd ==
    /\ txPc = "emit"
    /\ txI > Len(txResult.Transactions)
    /\ IF txResult.Marker = NoMarker
       THEN /\ txPc' = "close"
            /\ UNCHANGED txMarker
       ELSE /\ txPc' = "submit"
            /\ txMarker' = TxNextMarker(txResult)
    /\ UNCHANGED <<txPages, txFailAt, txResult, txI, txSubmitted, txOut,
                   txClosed>>
    /\ UNCHANGED sessionState

\* defer close(c)
TxClose ==
    /\ txPc = "close"
    /\ txClosed' = TRUE
    /\ txPc' = "done"
    /\ UNCHANGED <<txPages, txFailAt, txMarker, txResult, txI, txSubmitted,
                   txOut>>
    /\ UNCHANGED sessionState

NextTx ==
    \/ TxSubmit
    \/ TxReady
    \/ TxEmit
    \/ TxPageEnd
    \/ TxClose

SpecTx == InitTx /\ [][NextTx]_vars

\* ---- properties -----------------------------------------------------------

NoReconnectLoop == \A g \in Gens : rcPc[g] # "loop"

\* No arbitration loop and no reconnect loop exists any more: nothing will
\* ever again receive from r.outgoing, complete a command or close r.Incoming.
SessionDead == NoLiveRun /\ NoReconnectLoop

InTeardown(g) == runPc[g] \in {"tdClose", "tdFail", "tdDrain", "tdDecide"}
PendingFailed(g) == runPc[g] \in {"tdDrain", "tdDecide"}

\* C1: the number of Done and Fail invocations on a command is never more
\* than one, in every interleaving of reply, timeout, write-pump stop,
\* teardown and the reconnect loop.
AtMostOneCompletion == \A id \in Reqs : Len(outcomes[id]) <= 1

\* C1 witness: a command completed by its reply, whose generation was then
\* torn down and replaced by a reconnected generation.
AtMostOneCompletionWitness ==
    \E id \in Reqs :
        /\ outcomes[id] = <<OutcomeDone>>
        /\ takenBy[id] = 1
        /\ runPc[1] = "exited"
        /\ runPc[2] = "select"

\* C2 (as stated): every command placed on the outgoing queue is eventually
\* completed.  Final-state form: once no loop of the session is left, every
\* submitted command has been completed by Done or Fail.
EveryQueuedCompleted ==
    SessionDead => \A id \in submitted : Len(outcomes[id]) >= 1

\* C3 (as stated): the loop sending the cancellation and the watcher sending
\* the timeout are never deadlocked: the loop never waits on the canceller
\* of a watcher that has fired and waits on the timeout channel.
CancelNeverBlocked ==
    \A g \in Gens : runPc[g] = "cancel" => watcher[cur[g]] # "sending"

\* C4 (as stated): Close() eventually returns in every session state.
\* Final-state form: while Close() waits in its drain loop and no loop of the
\* session is left to close r.Incoming, r.Incoming has been closed.
CloseCanReturn ==
    (closePc = "drain" /\ SessionDead) => incomingClosed

\* C5 (as stated): when Close() has returned, the arbitration loop, the read
\* pump, the write pump, the reconnect loop and every timeout watcher have
\* exited.
CloseReturnedAllExited ==
    closePc = "returned" =>
        /\ \A g \in Gens : /\ runPc[g] \in {"none", "exited"}
                           /\ rpPc[g] \in {"none", "exited"}
                           /\ wpPc[g] \in {"none", "exited"}
                           /\ rcPc[g] \in {"none", "exited"}
        /\ \A id \in Reqs : watcher[id] \in {"none", "exited"}

\* C6 (as stated): every task of an old generation eventually terminates.
\* Final-state form: no watcher waits to report its timeout to an
\* arbitration loop that has already returned.
OldWatchersTerminate ==
    \A id \in Reqs :
        watcher[id] = "sending" => runPc[takenBy[id]] # "exited"

\* C7: when the loop returned because inbound was closed, the teardown fails
\* every command of the pending table with the disconnect reason, and no
\* command taken by that generation is left without a completion.
DisconnectFailsPending ==
    \A g \in Gens :
        (cause[g] = "inboundClosed" /\ PendingFailed(g)) =>
            /\ \A id \in pending[g] : outcomes[id] = <<ReasonDisconnect>>
            /\ \A id \in Reqs : takenBy[id] = g => Len(outcomes[id]) = 1

\* C7 witness: inbound closed with every command in the pending table, and
\* the teardown has failed them.
DisconnectFailsPendingWitness ==
    \E g \in Gens :
        /\ cause[g] = "inboundClosed"
        /\ PendingFailed(g)
        /\ pending[g] = Reqs

\* C8: when the loop received the timeout of a pending command X, X is out
\* of the pending table and failed with the timeout reason, the loop is in
\* its teardown, and the teardown fails every other pending command with the
\* disconnect reason.
TimeoutTearsDown ==
    \A g \in Gens :
        cause[g] = "timeout" =>
            /\ InTeardown(g)
            /\ \E x \in Reqs : /\ takenBy[x] = g
                               /\ x \notin pending[g]
                               /\ outcomes[x] = <<ReasonTimeout>>
            /\ PendingFailed(g) =>
                   \A id \in pending[g] : outcomes[id] = <<ReasonDisconnect>>

\* C8 witness: a timeout tore the generation down while another command was
\* pending, and the teardown has failed that one.
TimeoutTearsDownWitness ==
    \E g \in Gens :
        /\ cause[g] = "timeout"
        /\ PendingFailed(g)
        /\ pending[g] # {}

\* C9 (as stated): a command submitted while no arbitration loop is alive is
\* eventually failed with the disconnect reason.  Final-state form: once no
\* loop of the session is left, every such command was failed that way.
OutageSubmitFailed ==
    SessionDead => \A id \in subOutage : outcomes[id] = <<ReasonDisconnect>>

\* C10: nothing is sent on r.Incoming after its close, r.Incoming is closed
\* at most once, and once Close() has returned the channel is closed and
\* holds no message.
IncomingClosedOnce ==
    /\ ~sentAfterClose
    /\ incomingCloses <= 1
    /\ closePc = "returned" => (incomingClosed /\ Incoming = <<>>)

\* C10 witness: Close() returned after a reconnected generation delivered a
\* stream message and was torn down.
IncomingClosedOnceWitness ==
    /\ closePc = "returned"
    /\ runPc[2] = "exited"
    /\ nextFrame >= 1
    /\ incomingCloses = 1

\* The step in which run of generation g dispatches the frame it received.
DispatchStep(g) == runPc[g] = "decode" /\ runPc'[g] # "decode"

IsIncreasing(q) == \A i, j \in 1..Len(q) : i < j => q[i] < q[j]

\* q is the tail of d.
IsSuffix(q, d) ==
    /\ Len(q) <= Len(d)
    /\ \A i \in 1..Len(q) : q[i] = d[Len(d) - Len(q) + i]

\* C11 (as stated): a frame whose type has a stream factory is always
\* forwarded to r.Incoming and never touches the pending table.
StreamAlwaysForwarded ==
    [][\A g \in Gens :
        (DispatchStep(g) /\ inFrame[g].type \in StreamTypes) =>
            /\ Incoming' = Append(Incoming, inFrame[g].n)
            /\ pending' = pending
            /\ outcomes' = outcomes
            /\ runPc'[g] = "select"]_vars

\* C11 (amended): a frame whose type has a stream factory is forwarded to
\* r.Incoming when its payload decodes and dropped when it does not; in both
\* cases the pending table, the cancellation table and every command's
\* completion are left alone and the loop waits for its next event, also
\* when the frame carries the id of a pending command.
StreamNeverTouchesPending ==
    [][\A g \in Gens :
        (DispatchStep(g) /\ inFrame[g].type \in StreamTypes) =>
            /\ Incoming' = IF inFrame[g].ok
                           THEN Append(Incoming, inFrame[g].n)
                           ELSE Incoming
            /\ pending' = pending
            /\ timeoutCancellers' = timeoutCancellers
            /\ outcomes' = outcomes
            /\ runPc'[g] = "select"]_vars

\* C11 witness: the loop has received a decodable stream frame that carries
\* the id of a command which is pending at that moment.
StreamNeverTouchesPendingWitness ==
    \E g \in Gens :
        /\ runPc[g] = "decode"
        /\ inFrame[g].type \in StreamTypes
        /\ inFrame[g].ok
        /\ inFrame[g].id \in pending[g]
        /\ watcher[inFrame[g].id] = "waiting"

\* C12: the messages sent on r.Incoming are in the order in which their
\* frames were read from the websocket (frame numbers increase), within one
\* generation and across a reconnect, and r.Incoming holds the most recent
\* of them in that order.
StreamOrderKept ==
    /\ IsIncreasing(delivered)
    /\ IsSuffix(Incoming, delivered)

\* C12 witness: generation 1 delivered the first stream message, and after
\* a reconnect generation 2 has received the second one as its first frame.
StreamOrderKeptWitness ==
    /\ delivered = <<1>>
    /\ runPc[1] = "exited"
    /\ runPc[2] = "decode"
    /\ response[2].Type = ""
    /\ inFrame[2].type \in StreamTypes
    /\ inFrame[2].ok
    /\ inFrame[2].n = 2

\* C13: at most one arbitration loop or reconnect loop is active at any
\* time.
SingleLoop ==
    Cardinality({g \in Gens : RunAlive(g)})
        + Cardinality({g \in Gens : rcPc[g] = "loop"}) <= 1

\* C13 witness: after a disconnect/reconnect cycle the reconnect loop has
\* exited and the second arbitration loop runs alone.
SingleLoopWitness ==
    /\ runPc[1] = "exited"
    /\ rcPc[1] = "exited"
    /\ runPc[2] = "select"

\* C15 (as stated): a frame with no registered stream type that carries the
\* id of a pending command always removes that command from the pending
\* table, whatever frames were decoded before it.
ReplyAlwaysRouted ==
    [][\A g \in Gens :
        (DispatchStep(g) /\ inFrame[g].type \in {"", "response"}
                         /\ inFrame[g].id \in pending[g]) =>
            inFrame[g].id \notin pending'[g]]_vars

\* The transactions of pages 1..n in page order.
RECURSIVE Concat(_)
Concat(n) == IF n = 0 THEN <<>> ELSE Concat(n - 1) \o Page(n)

IsPrefix(q, d) == Len(q) <= Len(d) /\ \A i \in 1..Len(q) : q[i] = d[i]

\* Number of page requests accountTx has to make for the given inputs.
TxExpected == IF txFailAt \in 1..Len(txPages) THEN txFailAt ELSE Len(txPages)

\* C14: accountTx never submits more requests than the server has pages and
\* emits the transactions in page order; when it has finished, the channel is
\* closed and either no request failed, it submitted one request per page
\* and emitted all pages concatenated, or request number txFailAt failed, it
\* submitted no request after that one and emitted the pages before it.
PaginationTerminates ==
    /\ txSubmitted <= TxExpected
    /\ IsPrefix(txOut, Concat(Len(txPages)))
    /\ txClosed <=> txPc = "done"
    /\ txPc = "done" =>
          /\ txSubmitted = TxExpected
          /\ txOut = Concat(IF txFailAt \in 1..Len(txPages)
                            THEN txFailAt - 1 ELSE Len(txPages))

\* C14 witness: a fetch of three pages, the second one not empty, finished
\* without a failure.
PaginationTerminatesWitness ==
    /\ txPc = "done"
    /\ Len(txPages) = 3
    /\ txPages[2] > 0
    /\ txFailAt = 0
    /\ txSubmitted = 3

\* The step of the teardown's last statement, and the start of a loop.
TeardownDecides(g) == runPc[g] = "tdDecide" /\ runPc'[g] = "exited"
LoopStarts(g) == runPc[g] = "start" /\ runPc'[g] = "select"
LiveWatcher(id) == watcher[id] \in {"waiting", "sending"}

TeardownOrdered ==
    /\ \A g \in Gens :
        /\ runPc[g] \in {"tdFail", "tdDrain", "tdDecide", "exited"}
              => outboundClosed[g]
        /\ runPc[g] \in {"start", "select", "handoff", "decode", "cancel",
                          "tdClose"} => ~outboundClosed[g]
        /\ runPc[g] \in {"tdClose", "tdFail"} =>
              \A id \in pending[g] : outcomes[id] = <<>>
        /\ PendingFailed(g) =>
              \A id \in pending[g] : outcomes[id] = <<ReasonDisconnect>>
        /\ runPc[g] \in {"tdDecide", "exited"} => rpPc[g] = "exited"
        /\ rcPc[g] # "none" => (runPc[g] = "exited" /\ rpPc[g] = "exited")
    /\ incomingClosed => \A g \in Gens : rpPc[g] \in {"none", "exited"}
    /\ incomingCloses <= 1

\* C17 witness: generation 1 failed a pending command in its teardown, its
\* read pump has exited and its reconnect loop runs.
TeardownOrderedWitness ==
    /\ runPc[1] = "exited"
    /\ rpPc[1] = "exited"
    /\ rcPc[1] = "loop"
    /\ \E id \in Reqs : takenBy[id] = 1 /\ outcomes[id] = <<ReasonDisconnect>>

\* C18: when the loop returned because it saw the write pump stopped instead
\* of handing the command over, the command was given to no write pump, it
\* has no watcher, it is out of the cancellation table and still pending,
\* the loop is in its teardown, and the command is failed once, by the
\* teardown and with the disconnect reason.
StoppedPumpFailsCommand ==
    /\ \A g \in Gens :
        cause[g] = "writePumpStopped" =>
            /\ InTeardown(g)
            /\ cur[g] \in pending[g]
            /\ cur[g] \notin timeoutCancellers[g]
            /\ watcher[cur[g]] = "none"
            /\ \A h \in Gens : wpMsg[h] # cur[g]
            /\ outcomes[cur[g]] =
                  IF PendingFailed(g) THEN <<ReasonDisconnect>> ELSE <<>>
    /\ \A id \in Reqs :
        (takenBy[id] # 0 /\ watcher[id] = "none"
                        /\ runPc[takenBy[id]] = "exited") =>
            outcomes[id] = <<ReasonDisconnect>>

\* C18 witness: the teardown after a stopped write pump has failed the
\* command that was not handed over.
StoppedPumpFailsCommandWitness ==
    \E g \in Gens :
        /\ cause[g] = "writePumpStopped"
        /\ runPc[g] = "tdDecide"
        /\ outcomes[cur[g]] = <<ReasonDisconnect>>

\* C19 (as stated): while the loop waits in its select, the pending table
\* and the cancellation table hold the same ids, every one of them has a
\* live watcher, and there is no live watcher for any other id.
TablesPaired ==
    \A g \in Gens :
        runPc[g] = "select" =>
            /\ pending[g] = timeoutCancellers[g]
            /\ \A id \in Reqs : LiveWatcher(id) <=> id \in pending[g]

\* The part of C19 that concerns the loop's own commands only.
TablesPairedOwn ==
    \A g \in Gens :
        runPc[g] = "select" =>
            /\ pending[g] = timeoutCancellers[g]
            /\ \A id \in Reqs :
                  (LiveWatcher(id) /\ takenBy[id] = g) <=> id \in pending[g]

\* C20: every timeout the loop receives names a command of its pending
\* table, and receiving it makes the loop return into its teardown.
TimeoutAlwaysPending ==
    [][\A g \in Gens : \A id \in Reqs :
        (runPc[g] = "select" /\ takenBy[id] = g
            /\ watcher[id] = "sending" /\ watcher'[id] = "exited") =>
                /\ id \in pending[g]
                /\ runPc'[g] = "tdClose"
                /\ timeoutCancellers'[g] = timeoutCancellers[g]]_vars

\* C20 witness: the loop received a timeout after it had completed another
\* command by its reply.
TimeoutAlwaysPendingWitness ==
    \E g \in Gens : \E id, other \in Reqs :
        /\ cause[g] = "timeout"
        /\ outcomes[id] = <<ReasonTimeout>>
        /\ takenBy[other] = g
        /\ outcomes[other] = <<OutcomeDone>>
        /\ watcher[other] = "exited"

====
